---- MODULE Spec2Model ----
(***************************************************************************)
(* Job orchestration core of src/web/app.py: the download_status dict,     *)
(* the runner thread download_video_with_progress with its progress_hook,  *)
(* the status and file endpoints, the generate() stream and the deferred   *)
(* delete_file_after_delay thread.                                         *)
(*                                                                         *)
(* Every block the code runs under download_lock is one action; the steps  *)
(* the code runs outside the lock (os.path.exists, os.path.getsize, open,  *)
(* read, os.remove) are actions of their own, so that other threads can    *)
(* interleave exactly where they can in the program.                       *)
(*                                                                         *)
(* percent is kept in hundredths: 9990 is 99.9, 9500 is 95, 10000 is 100.  *)
(***************************************************************************)
EXTENDS Integers, Sequences, FiniteSets, TLC

\* ---------------------------------------------------------------- bounds
\* largest byte counter an engine event carries (0 as total: unknown)
MaxBytes == 1
\* length of an artifact file, in 8192-byte chunks
MaxChunks == 1
\* largest byte counter of an engine event whose percent is computed alone
MaxEventBytes == 4

\* ------------------------------------------------------- program constants
GraceDelay == 2
PercentCap == 9990
ProcessingPercent == 9500
CompletedPercent == 10000

\* job ids (uuid4 strings in the code) and concurrent file requests
Jobs == {1, 2}
Fetchers == {1, 2}

\* request bodies of POST /api/download that reach the runner thread
Requests ==
  { [url |-> "ok",        format_type |-> "video", file_format |-> "mp4", quality |-> "720p"],
    [url |-> "ok",        format_type |-> "audio", file_format |-> "mp3", quality |-> "best"],
    [url |-> "ok",        format_type |-> "video", file_format |-> "mp4", quality |-> "hd"],
    [url |-> "malformed", format_type |-> "video", file_format |-> "mp4", quality |-> "best"] }

NoReq == [url |-> "", format_type |-> "", file_format |-> "", quality |-> ""]
NoPoll == [id |-> 0, body |-> [status |-> "none"]]
NoSubmit == [code |-> 0, download_id |-> 0]
NoLog == [id |-> 0, line |-> ""]

\* threads that arrive at a with download_lock statement, and the accesses
\* the code makes there
Threads == {1, 2, 3}
NoOp == [kind |-> "", id |-> 0]
NoArg == [fn |-> ""]
NoRes == [fn |-> ""]
LockSites == {"submit", "progress", "terminal", "poll", "lookup", "cleanup"}

\* request bodies of POST /api/download whose url is missing or empty
\* (data.get('url', '') is '' in both cases)
EmptyUrlRequests ==
  { [url |-> "", format_type |-> "video", file_format |-> "mp4", quality |-> "best"],
    [url |-> "", format_type |-> "audio", file_format |-> "mp3", quality |-> "320"] }

VARIABLES
  download_status,  \* the dict: a function whose domain is the set of stored ids
  files,            \* paths that exist on disk
  rpc,              \* per job: position of its runner thread
  req,              \* per job: arguments of its runner thread while it lives
  fpc,              \* per file request: position of the handler / stream / cleanup thread
  fid,              \* per file request: the download_id of the URL
  fpath,            \* per file request: filepath and filename read under the lock
  fpos,             \* per file request: chunks read from the open handle
  slept,            \* per file request: time units slept by its cleanup thread
  pollResult,       \* response of the status endpoint, while it is being sent
  submitResult,     \* response of POST /api/download, while it is being sent
  hookLog,          \* line printed by progress_hook's except clause, while it is printed
  lock,             \* download_lock: 0 when free, else the thread that holds it
  tpc,              \* per thread at a with download_lock statement: its position
  top,              \* per thread at a with download_lock statement: the access it makes
  arg,              \* input of a computation of the runner taken on its own
  res               \* its result, once computed

lockVars == <<lock, tpc, top>>
fnVars == <<arg, res>>
vars == <<download_status, files, rpc, req, fpc, fid, fpath, fpos, slept,
          pollResult, submitResult, hookLog, lockVars, fnVars>>
runnerVars == <<rpc, req>>
fetchVars == <<fpc, fid, fpath, fpos, slept>>

\* a response of the status endpoint is gone with the next step of any thread
PollGone == pollResult' = NoPoll
SubmitGone == submitResult' = NoSubmit
LogGone == hookLog' = NoLog

\* the steps of the threads below are atomic with respect to download_lock:
\* each takes and releases it within the step
LockUntouched == UNCHANGED <<lockVars, fnVars>>

\* a step that sends no response and prints no error line
Quiet == PollGone /\ SubmitGone /\ LogGone /\ LockUntouched

\* ------------------------------------------------------------ pure helpers
Min(a, b) == IF a <= b THEN a ELSE b

\* round(n/m) to the nearest integer, ties to even (Python's round)
RoundDiv(n, m) ==
  LET q == n \div m
      r == n % m
  IN  IF 2 * r < m THEN q
      ELSE IF 2 * r > m THEN q + 1
      ELSE IF q % 2 = 0 THEN q ELSE q + 1

\* variant: (downloaded / total) * 100 without the min
Percent_uncapped(downloaded, total) ==
  IF total > 0 THEN RoundDiv(downloaded * 10000, total) ELSE 0

\* lines 152-155 and 159: min(downloaded/total*100, 99.9), rounded to 2 places
Percent(downloaded, total) ==
  IF total > 0
  THEN IF downloaded * 10000 >= PercentCap * total
       THEN PercentCap
       ELSE RoundDiv(downloaded * 10000, total)
  ELSE 0

\* line 140: urlparse raises ValueError on a malformed netloc ("http://[")
clean_youtube_url_raises(r) == r.url = "malformed"

\* line 218: int(quality.replace('p', '')) raises ValueError for a non-numeric tier
QualityParses(q) == q \in {"144p", "240p", "360p", "480p", "720p", "1080p", "1440p", "2160p"}

ConfigRaises(r) ==
  /\ r.format_type # "audio"
  /\ r.quality # "best"
  /\ ~QualityParses(r.quality)

\* lines 244-253: extension of the reported filename
NormalizedExt(r) ==
  IF r.format_type = "audio"
  THEN IF r.file_format = "wav" THEN "wav" ELSE "mp3"
  ELSE r.file_format

\* lines 143-144, 198/231: the path is derived from the job id only
TempPath(id, ext) == [dir |-> "tmp", base |-> <<id, ext>>]
Basename(p) == p.base
NoPath == [dir |-> "", base |-> <<0, "">>]

QueuedEntry == [status |-> "queued", percent |-> 0]
ProcessingEntry == [status |-> "processing", percent |-> ProcessingPercent]
DownloadingEntry(d, t) ==
  [status |-> "downloading", percent |-> Percent(d, t),
   downloaded |-> d, total |-> t, speed |-> 0, eta |-> 0]
CompletedEntry(p) ==
  [status |-> "completed", percent |-> CompletedPercent,
   filename |-> Basename(p), filepath |-> p, title |-> "title"]
ErrorEntry(msg) == [status |-> "error", error |-> msg]

\* variant: download_status[id].update(entry), the old keys stay
Put_update(id, entry) ==
  [k \in DOMAIN download_status \cup {id} |->
     IF k # id THEN download_status[k]
     ELSE IF id \notin DOMAIN download_status THEN entry
     ELSE [fld \in DOMAIN download_status[id] \cup DOMAIN entry |->
             IF fld \in DOMAIN entry THEN entry[fld] ELSE download_status[id][fld]]]

\* dict assignment download_status[id] = entry (creates the key when absent)
Put(id, entry) ==
  [k \in DOMAIN download_status \cup {id} |->
     IF k = id THEN entry ELSE download_status[k]]

\* del download_status[id]
Del(id) == [k \in DOMAIN download_status \ {id} |-> download_status[k]]

StatusOf(id) ==
  IF id \in DOMAIN download_status THEN download_status[id].status ELSE "absent"

\* ------------------------------------------------------------------- Init
\* nothing submitted, no thread alive
Idle ==
  /\ download_status = [k \in {} |-> QueuedEntry]
  /\ files = {}
  /\ rpc = [j \in Jobs |-> "unborn"]
  /\ req = [j \in Jobs |-> NoReq]
  /\ fpc = [f \in Fetchers |-> "idle"]
  /\ fid = [f \in Fetchers |-> 0]
  /\ fpath = [f \in Fetchers |-> NoPath]
  /\ fpos = [f \in Fetchers |-> 0]
  /\ slept = [f \in Fetchers |-> 0]
  /\ pollResult = NoPoll
  /\ submitResult = NoSubmit
  /\ hookLog = NoLog
  /\ lock = 0
  /\ tpc = [t \in Threads |-> "idle"]
  /\ top = [t \in Threads |-> NoOp]

Init == Idle /\ arg = NoArg /\ res = NoRes

\* ----------------------------------------------------------------- submit
\* POST /api/download.  Lines 355-356: an empty url is answered 400 before
\* anything else happens.  Lines 358-379 otherwise: fresh id, queued entry
\* written under the lock, runner thread started.  uuid4 ids are opaque; the
\* model hands them out in increasing order.
FreshId(j) == rpc[j] = "unborn" /\ \A k \in Jobs : k < j => rpc[k] # "unborn"

\* variant: the id is generated and queued before the url is validated
download_validates_late(j, r) ==
  /\ FreshId(j)
  /\ download_status' = Put(j, QueuedEntry)
  /\ IF r.url = ""
     THEN /\ submitResult' = [code |-> 400, download_id |-> 0]
          /\ UNCHANGED <<rpc, req>>
     ELSE /\ submitResult' = [code |-> 200, download_id |-> j]
          /\ rpc' = [rpc EXCEPT ![j] = "start"]
          /\ req' = [req EXCEPT ![j] = r]
  /\ PollGone /\ LogGone /\ LockUntouched
  /\ UNCHANGED <<files, fetchVars>>

download(j, r) ==
  /\ IF r.url = ""
     THEN /\ submitResult' = [code |-> 400, download_id |-> 0]
          /\ UNCHANGED <<download_status, rpc, req>>
     ELSE /\ FreshId(j)
          /\ submitResult' = [code |-> 200, download_id |-> j]
          /\ download_status' = Put(j, QueuedEntry)
          /\ rpc' = [rpc EXCEPT ![j] = "start"]
          /\ req' = [req EXCEPT ![j] = r]
  /\ PollGone /\ LogGone /\ LockUntouched
  /\ UNCHANGED <<files, fetchVars>>

\* ----------------------------------------------------------- runner thread
\* line 140, outside the try block: an exception ends the thread uncaught
RunnerCleanUrl(j) ==
  /\ rpc[j] = "start"
  /\ IF clean_youtube_url_raises(req[j])
     THEN /\ rpc' = [rpc EXCEPT ![j] = "dead"]
          /\ req' = [req EXCEPT ![j] = NoReq]
     ELSE /\ rpc' = [rpc EXCEPT ![j] = "config"]
          /\ req' = req
  /\ Quiet
  /\ UNCHANGED <<download_status, files, fetchVars>>

\* lines 183-237 inside try; lines 263-268 on an exception
RunnerBuildConfig(j) ==
  /\ rpc[j] = "config"
  /\ IF ConfigRaises(req[j])
     THEN /\ download_status' = Put(j, ErrorEntry("config"))
          /\ rpc' = [rpc EXCEPT ![j] = "done"]
          /\ req' = [req EXCEPT ![j] = NoReq]
     ELSE /\ rpc' = [rpc EXCEPT ![j] = "running"]
          /\ UNCHANGED <<download_status, req>>
  /\ Quiet
  /\ UNCHANGED <<files, fetchVars>>

\* variant: a hook call that arrives after extract_info has returned
HookMayFire_late(j) == rpc[j] \in {"running", "done"}

\* the engine calls the hook only from inside ydl.extract_info (line 240)
HookMayFire(j) == rpc[j] = "running"

\* within one stream the engine's cumulative byte counter does not go back
EventAllowed(j, d) ==
  StatusOf(j) = "downloading" => d >= download_status[j].downloaded

\* lines 149-170: a 'downloading' event
progress_hook_downloading(j, d, t) ==
  /\ HookMayFire(j)
  /\ EventAllowed(j, d)
  /\ download_status' = Put(j, DownloadingEntry(d, t))
  /\ Quiet
  /\ UNCHANGED <<files, runnerVars, fetchVars>>

\* variant: the hook writes under the id of the latest submission instead of
\* the id of its own job
progress_hook_finished_lastid(j) ==
  LET last == CHOOSE k \in Jobs :
                rpc[k] # "unborn" /\ \A m \in Jobs : m > k => rpc[m] = "unborn" IN
  /\ HookMayFire(j)
  /\ download_status' = Put(last, ProcessingEntry)
  /\ Quiet
  /\ UNCHANGED <<files, runnerVars, fetchVars>>

\* lines 172-178: a 'finished' event
progress_hook_finished(j) ==
  /\ HookMayFire(j)
  /\ download_status' = Put(j, ProcessingEntry)
  /\ Quiet
  /\ UNCHANGED <<files, runnerVars, fetchVars>>

\* variant: the hook has no try/except, the TypeError travels through
\* extract_info into the runner's except clause of lines 263-268
progress_hook_malformed_propagates(j) ==
  /\ HookMayFire(j)
  /\ download_status' = Put(j, ErrorEntry("TypeError"))
  /\ rpc' = [rpc EXCEPT ![j] = "done"]
  /\ req' = [req EXCEPT ![j] = NoReq]
  /\ Quiet
  /\ UNCHANGED <<files, fetchVars>>

\* lines 147-164 and 179-181: a 'downloading' event whose counters are
\* malformed (downloaded_bytes None with a positive total, or a total that is
\* not a number): line 152 or 153 raises TypeError before the lock is taken,
\* the except clause prints one line and the hook returns normally
progress_hook_malformed(j) ==
  /\ HookMayFire(j)
  /\ hookLog' = [id |-> j, line |-> "Progress hook error"]
  /\ PollGone /\ SubmitGone /\ LockUntouched
  /\ UNCHANGED <<download_status, files, runnerVars, fetchVars>>

\* variant: the error is recorded and the download is tried again
EngineRaise_retry(j) ==
  /\ rpc[j] = "running"
  /\ download_status' = Put(j, ErrorEntry("engine"))
  /\ Quiet
  /\ UNCHANGED <<files, runnerVars, fetchVars>>

\* line 240 raises (network, unsupported format, post-processing): lines 263-268
EngineRaise(j) ==
  /\ rpc[j] = "running"
  /\ download_status' = Put(j, ErrorEntry("engine"))
  /\ rpc' = [rpc EXCEPT ![j] = "done"]
  /\ req' = [req EXCEPT ![j] = NoReq]
  /\ Quiet
  /\ UNCHANGED <<files, fetchVars>>

\* lines 240-262: the engine returns, its output file is on disk, the
\* completed snapshot is written under the lock
EngineReturn(j) ==
  LET p == TempPath(j, NormalizedExt(req[j])) IN
  /\ rpc[j] = "running"
  /\ files' = files \cup {p}
  /\ download_status' = Put(j, CompletedEntry(p))
  /\ rpc' = [rpc EXCEPT ![j] = "done"]
  /\ req' = [req EXCEPT ![j] = NoReq]
  /\ Quiet
  /\ UNCHANGED <<fetchVars>>

\* ---------------------------------------------------------- status endpoint
\* lines 382-387: download_status.get(id, {'status': 'not_found'}) under the lock
StatusBody(id) ==
  IF id \in DOMAIN download_status THEN download_status[id] ELSE [status |-> "not_found"]

\* variant: the lookup goes through setdefault and stores the default
download_status_endpoint_setdefault(id) ==
  /\ pollResult' = [id |-> id, body |-> StatusBody(id)]
  /\ download_status' = IF id \in DOMAIN download_status
                        THEN download_status
                        ELSE Put(id, [status |-> "not_found"])
  /\ SubmitGone /\ LogGone /\ LockUntouched
  /\ UNCHANGED <<files, runnerVars, fetchVars>>

download_status_endpoint(id) ==
  /\ pollResult' = [id |-> id, body |-> StatusBody(id)]
  /\ SubmitGone /\ LogGone /\ LockUntouched
  /\ UNCHANGED <<download_status, files, runnerVars, fetchVars>>

\* ------------------------------------------------------------ file endpoint
\* line 395: not (not status or status.get('status') != 'completed')
LookupPasses(id) ==
  /\ id \in DOMAIN download_status
  /\ download_status[id].status = "completed"

\* line 398: status.get('filepath')
GetFilepath(id) ==
  IF "filepath" \in DOMAIN download_status[id]
  THEN download_status[id].filepath
  ELSE NoPath

\* variant: the existence test of line 401 is left out
FileCheckPasses_noexists(p) == p # NoPath

\* line 401: not (not filepath or not os.path.exists(filepath))
FileCheckPasses(p) == p # NoPath /\ p \in files

\* lines 393-399: the lookup under the lock (requests are numbered in the
\* order in which they take the lock)
download_file_lookup(f, id) ==
  /\ fpc[f] = "idle"
  /\ \A g \in Fetchers : g < f => fpc[g] # "idle"
  /\ fid' = [fid EXCEPT ![f] = id]
  /\ IF LookupPasses(id)
     THEN /\ fpath' = [fpath EXCEPT ![f] = GetFilepath(id)]
          /\ fpc' = [fpc EXCEPT ![f] = "check"]
     ELSE /\ fpc' = [fpc EXCEPT ![f] = "r404"]
          /\ fpath' = fpath
  /\ Quiet
  /\ UNCHANGED <<download_status, files, runnerVars, fpos, slept>>

\* variant: a request that finds the file missing drops the stale entry
download_file_check_purges(f) ==
  /\ fpc[f] = "check"
  /\ IF FileCheckPasses(fpath[f])
     THEN /\ fpc' = [fpc EXCEPT ![f] = "respond"]
          /\ UNCHANGED download_status
     ELSE /\ fpc' = [fpc EXCEPT ![f] = "r404"]
          /\ download_status' = [k \in DOMAIN download_status \ {fid[f]} |-> download_status[k]]
  /\ Quiet
  /\ UNCHANGED <<files, runnerVars, fid, fpath, fpos, slept>>

\* lines 401-402: the existence check, outside the lock
download_file_check(f) ==
  /\ fpc[f] = "check"
  /\ fpc' = [fpc EXCEPT ![f] = IF FileCheckPasses(fpath[f]) THEN "respond" ELSE "r404"]
  /\ Quiet
  /\ UNCHANGED <<download_status, files, runnerVars, fid, fpath, fpos, slept>>

\* lines 433-442: the Response is built around the unstarted generator;
\* os.path.getsize raises OSError if the file has gone since line 401
download_file_respond(f) ==
  /\ fpc[f] = "respond"
  /\ fpc' = [fpc EXCEPT ![f] = IF fpath[f] \in files THEN "ready" ELSE "r500"]
  /\ Quiet
  /\ UNCHANGED <<download_status, files, runnerVars, fid, fpath, fpos, slept>>

\* the response is closed before the generator's first next() (a HEAD
\* request): the body of generate(), its finally block included, never runs
generate_unstarted_close(f) ==
  /\ fpc[f] = "ready"
  /\ fpc' = [fpc EXCEPT ![f] = "dropped"]
  /\ Quiet
  /\ UNCHANGED <<download_status, files, runnerVars, fid, fpath, fpos, slept>>

\* lines 405-407: open(); FileNotFoundError leaves file_handle None and runs
\* the finally block, which starts the cleanup thread (line 431)
generate_open(f) ==
  /\ fpc[f] = "ready"
  /\ fpc' = [fpc EXCEPT ![f] = IF fpath[f] \in files THEN "stream" ELSE "sleep"]
  /\ Quiet
  /\ UNCHANGED <<download_status, files, runnerVars, fid, fpath, fpos, slept>>

\* lines 409-412: one chunk read and yielded (an unlinked file stays readable)
generate_read(f) ==
  /\ fpc[f] = "stream"
  /\ fpos[f] < MaxChunks
  /\ fpos' = [fpos EXCEPT ![f] = @ + 1]
  /\ Quiet
  /\ UNCHANGED <<download_status, files, runnerVars, fpc, fid, fpath, slept>>

\* lines 409-415 and 431: end of file, handle closed, cleanup thread started
generate_eof(f) ==
  /\ fpc[f] = "stream"
  /\ fpos[f] = MaxChunks
  /\ fpc' = [fpc EXCEPT ![f] = "sleep"]
  /\ Quiet
  /\ UNCHANGED <<download_status, files, runnerVars, fid, fpath, fpos, slept>>

\* the client disconnects while the generator is suspended at the yield of
\* line 412: GeneratorExit, finally block of lines 413-431
generate_abort(f) ==
  /\ fpc[f] = "stream"
  /\ fpos[f] >= 1
  /\ fpc' = [fpc EXCEPT ![f] = "sleep"]
  /\ Quiet
  /\ UNCHANGED <<download_status, files, runnerVars, fid, fpath, fpos, slept>>

\* ------------------------------------------------------------ cleanup thread
\* one time unit passes for every thread inside time.sleep(2)
Tick ==
  /\ \E f \in Fetchers : fpc[f] = "sleep" /\ slept[f] < GraceDelay
  /\ slept' = [f \in Fetchers |->
                 IF fpc[f] = "sleep" /\ slept[f] < GraceDelay THEN slept[f] + 1 ELSE slept[f]]
  /\ Quiet
  /\ UNCHANGED <<download_status, files, runnerVars, fpc, fid, fpath, fpos>>

\* variant: the cleanup thread does not wait
SleepOver_nowait(f) == slept[f] >= 0

\* line 420: time.sleep(2) returns no earlier than 2 time units after the start
SleepOver(f) == slept[f] >= GraceDelay

\* lines 420-422: wake up, os.path.exists(filepath)
delete_file_after_delay_wake(f) ==
  /\ fpc[f] = "sleep"
  /\ SleepOver(f)
  /\ fpc' = [fpc EXCEPT ![f] = IF fpath[f] \in files THEN "remove" ELSE "del"]
  /\ Quiet
  /\ UNCHANGED <<download_status, files, runnerVars, fid, fpath, fpos, slept>>

\* line 423: os.remove succeeds
delete_file_after_delay_remove(f) ==
  /\ fpc[f] = "remove"
  /\ fpath[f] \in files
  /\ files' = files \ {fpath[f]}
  /\ fpc' = [fpc EXCEPT ![f] = "del"]
  /\ Quiet
  /\ UNCHANGED <<download_status, runnerVars, fid, fpath, fpos, slept>>

\* line 423 raises (PermissionError, or FileNotFoundError when another
\* cleanup thread removed the file first): lines 427-428 log it and the
\* thread ends, the with block of lines 424-426 is skipped
delete_file_after_delay_remove_raises(f) ==
  /\ fpc[f] = "remove"
  /\ fpc' = [fpc EXCEPT ![f] = "cfail"]
  /\ Quiet
  /\ UNCHANGED <<download_status, files, runnerVars, fid, fpath, fpos, slept>>

\* lines 424-426: under the lock, del download_status[id] if present
delete_file_after_delay_del(f) ==
  /\ fpc[f] = "del"
  /\ download_status' = IF fid[f] \in DOMAIN download_status THEN Del(fid[f]) ELSE download_status
  /\ fpc' = [fpc EXCEPT ![f] = "cdone"]
  /\ Quiet
  /\ UNCHANGED <<files, runnerVars, fid, fpath, fpos, slept>>

\* --------------------------------------------------------------------- Next
Next ==
  \/ \E j \in Jobs, r \in Requests \cup EmptyUrlRequests : download(j, r)
  \/ \E j \in Jobs : RunnerCleanUrl(j)
  \/ \E j \in Jobs : RunnerBuildConfig(j)
  \/ \E j \in Jobs, d \in 0..MaxBytes, t \in 0..MaxBytes : progress_hook_downloading(j, d, t)
  \/ \E j \in Jobs : progress_hook_finished(j)
  \/ \E j \in Jobs : progress_hook_malformed(j)
  \/ \E j \in Jobs : EngineRaise(j)
  \/ \E j \in Jobs : EngineReturn(j)
  \/ \E id \in Jobs : download_status_endpoint(id)
  \/ \E f \in Fetchers, id \in Jobs : download_file_lookup(f, id)
  \/ \E f \in Fetchers : download_file_check(f)
  \/ \E f \in Fetchers : download_file_respond(f)
  \/ \E f \in Fetchers : generate_unstarted_close(f)
  \/ \E f \in Fetchers : generate_open(f)
  \/ \E f \in Fetchers : generate_read(f)
  \/ \E f \in Fetchers : generate_eof(f)
  \/ \E f \in Fetchers : generate_abort(f)
  \/ Tick
  \/ \E f \in Fetchers : delete_file_after_delay_wake(f)
  \/ \E f \in Fetchers : delete_file_after_delay_remove(f)
  \/ \E f \in Fetchers : delete_file_after_delay_remove_raises(f)
  \/ \E f \in Fetchers : delete_file_after_delay_del(f)

Spec == Init /\ [][Next]_vars

\* ------------------------------------------------------------ download_lock
\* The lock discipline on its own: every access to download_status in the
\* code is the body of a with download_lock statement (lines 166, 173, 255,
\* 264, 362, 385, 393, 424).  A thread arrives at the statement, blocks until
\* the one global lock is free, makes its access and releases the lock.
mainFrame == <<files, rpc, req, fpc, fid, fpath, fpos, slept, pollResult, submitResult, hookLog, fnVars>>

\* the access is one the program can make on that id at this moment
SiteFits(kind, id) ==
  CASE kind = "submit"   -> id \notin DOMAIN download_status
    [] kind = "progress" -> StatusOf(id) \in {"queued", "downloading", "processing"}
    [] kind = "terminal" -> StatusOf(id) \in {"queued", "downloading", "processing"}
    [] kind = "cleanup"  -> StatusOf(id) = "completed"
    [] OTHER             -> TRUE

\* the thread reaches the with statement
LockRequest(t, kind, id) ==
  /\ tpc[t] = "idle"
  /\ SiteFits(kind, id)
  /\ tpc' = [tpc EXCEPT ![t] = "wait"]
  /\ top' = [top EXCEPT ![t] = [kind |-> kind, id |-> id]]
  /\ UNCHANGED <<download_status, lock, mainFrame>>

\* variant: an access site that does not take the lock
LockFree_unlocked == TRUE

\* threading.Lock.acquire: blocks while any thread holds the lock
LockFree == lock = 0

\* __enter__ of with download_lock
LockAcquire(t) ==
  /\ tpc[t] = "wait"
  /\ LockFree
  /\ lock' = t
  /\ tpc' = [tpc EXCEPT ![t] = "held"]
  /\ UNCHANGED <<download_status, top, mainFrame>>

\* the body of the with statement
LockedAccess(t) ==
  LET id == top[t].id
      kind == top[t].kind IN
  /\ tpc[t] = "held"
  /\ download_status' =
       CASE kind = "submit"   -> Put(id, QueuedEntry)
         [] kind = "progress" -> Put(id, ProcessingEntry)
         [] kind = "terminal" -> Put(id, CompletedEntry(TempPath(id, "mp4")))
         [] kind = "cleanup"  -> IF id \in DOMAIN download_status THEN Del(id) ELSE download_status
         [] OTHER             -> download_status
  /\ tpc' = [tpc EXCEPT ![t] = "leave"]
  /\ UNCHANGED <<lock, top, mainFrame>>

\* __exit__ of with download_lock
LockRelease(t) ==
  /\ tpc[t] = "leave"
  /\ lock' = IF lock = t THEN 0 ELSE lock
  /\ tpc' = [tpc EXCEPT ![t] = "idle"]
  /\ top' = [top EXCEPT ![t] = NoOp]
  /\ UNCHANGED <<download_status, mainFrame>>

LockNext ==
  \/ \E t \in Threads, kind \in LockSites, id \in Jobs : LockRequest(t, kind, id)
  \/ \E t \in Threads : LockAcquire(t)
  \/ \E t \in Threads : LockedAccess(t)
  \/ \E t \in Threads : LockRelease(t)

SpecLock == Init /\ [][LockNext]_vars

\* ------------------------------------------------- computations on their own
\* The computations of download_video_with_progress that depend on their
\* arguments only: the percent of a progress event, the engine options built
\* from the request with the format the engine then selects, and the
\* normalisation of the produced filename.

\* str.lower() on the spellings a request carries
Lower(str) ==
  CASE str = "MP4" -> "mp4"
    [] str = "MKV" -> "mkv"
    [] str = "WAV" -> "wav"
    [] str = "MP3" -> "mp3"
    [] OTHER       -> str

\* line 218: int(quality.replace('p', ''))
Height(quality) ==
  CASE quality = "144p"  -> 144
    [] quality = "240p"  -> 240
    [] quality = "360p"  -> 360
    [] quality = "480p"  -> 480
    [] quality = "720p"  -> 720
    [] quality = "1080p" -> 1080
    [] quality = "1440p" -> 1440
    [] quality = "2160p" -> 2160

\* lines 187-193
quality_map ==
  [tier \in {"128", "192", "256", "320", "best"} |-> IF tier = "best" THEN "192" ELSE tier]

\* dict.get(key, default)
DictGet(dict, key, default) ==
  IF key \in DOMAIN dict THEN dict[key] ELSE default

\* variant: quality_map.get(quality), no default
audio_quality_nodefault(quality) == DictGet(quality_map, quality, "None")

\* line 194
audio_quality(quality) == DictGet(quality_map, quality, "192")

\* one term of a yt-dlp format selector: bestvideo / bestaudio / best with its
\* [height<=N] and [ext=E] filters (maxh 0, ext "": no such filter)
Term(pick, maxh, ext) == [pick |-> pick, maxh |-> maxh, ext |-> ext]

\* lines 214-227: the selector as the sequence of its '/' alternatives, each
\* the sequence of its '+' terms
format_string(video_format, quality) ==
  IF quality = "best"
  THEN << <<Term("bestvideo", 0, ""), Term("bestaudio", 0, "")>>,
          <<Term("best", 0, "")>> >>
  ELSE LET height == Height(quality) IN
       IF video_format = "mp4"
       THEN << <<Term("bestvideo", height, "mp4"), Term("bestaudio", 0, "m4a")>>,
               <<Term("bestvideo", height, ""), Term("bestaudio", 0, "")>>,
               <<Term("best", height, "mp4")>>,
               <<Term("best", 0, "mp4")>>,
               <<Term("best", 0, "")>> >>
       ELSE IF video_format = "mkv"
       THEN << <<Term("bestvideo", height, ""), Term("bestaudio", 0, "")>>,
               <<Term("best", height, "")>>,
               <<Term("best", 0, "")>> >>
       ELSE << <<Term("bestvideo", height, ""), Term("bestaudio", 0, "")>>,
               <<Term("best", 0, "")>> >>

\* lines 184-237: the options handed to YoutubeDL
ydl_opts(r) ==
  IF r.format_type = "audio"
  THEN [raised |-> FALSE,
        format |-> << <<Term("bestaudio", 0, "")>>, <<Term("best", 0, "")>> >>,
        preferredcodec |-> Lower(r.file_format),
        preferredquality |-> audio_quality(r.quality)]
  ELSE IF ConfigRaises(r)
  THEN [raised |-> TRUE]
  ELSE [raised |-> FALSE,
        format |-> format_string(Lower(r.file_format), r.quality),
        merge_output_format |-> Lower(r.file_format)]

\* streams a source offers: video-only "v", audio-only "a", combined "av";
\* audio-only streams have no height (0)
Streams ==
  { [n |-> 1, kind |-> "v",  height |-> 480,  ext |-> "mp4"],
    [n |-> 2, kind |-> "v",  height |-> 1080, ext |-> "webm"],
    [n |-> 3, kind |-> "a",  height |-> 0,    ext |-> "m4a"],
    [n |-> 4, kind |-> "a",  height |-> 0,    ext |-> "webm"],
    [n |-> 5, kind |-> "av", height |-> 480,  ext |-> "webm"],
    [n |-> 6, kind |-> "av", height |-> 1080, ext |-> "mp4"] }

\* the engine's filters: a stream without a height fails [height<=N]
Filtered(term, S) ==
  { f \in S : /\ term.maxh = 0 \/ (f.height # 0 /\ f.height <= term.maxh)
              /\ term.ext = "" \/ f.ext = term.ext }

\* a source with video-only streams only, or audio-only streams only
Incomplete(S) == (\A f \in S : f.kind = "v") \/ (\A f \in S : f.kind = "a")

\* the engine's candidates of one term: bestvideo takes video-only streams,
\* bestaudio audio-only ones, best combined ones (any stream that passed the
\* filters when the source is incomplete)
Matches(term, S) ==
  LET F == Filtered(term, S) IN
  CASE term.pick = "bestvideo" -> { f \in F : f.kind = "v" }
    [] term.pick = "bestaudio" -> { f \in F : f.kind = "a" }
    [] OTHER -> LET both == { f \in F : f.kind = "av" } IN
                IF both = {} /\ Incomplete(S) THEN F ELSE both

\* the engine's preference: the larger resolution first
Best(M) ==
  CHOOSE f \in M : \A g \in M : g.height < f.height \/ (g.height = f.height /\ g.n <= f.n)

\* one '/' alternative: every '+' term needs a stream
Alternative(alt, S) ==
  IF \A i \in 1..Len(alt) : Matches(alt[i], S) # {}
  THEN { Best(Matches(alt[i], S)) : i \in 1..Len(alt) }
  ELSE {}

\* the selector: the first alternative that yields streams, {} when none does
Select(chain, S) ==
  LET good == { i \in 1..Len(chain) : Alternative(chain[i], S) # {} } IN
  IF good = {} THEN {}
  ELSE Alternative(chain[CHOOSE i \in good : \A k \in good : i <= k], S)

\* filenames as the sequence of their '.'-separated parts
\* filename.rsplit('.', 1)[0]
Stem(name) == IF Len(name) > 1 THEN SubSeq(name, 1, Len(name) - 1) ELSE name
\* filename.endswith('.' + ext)
EndsWith(name, ext) == Len(name) > 1 /\ name[Len(name)] = ext

\* lines 244-253
normalize(format_type, file_format, filename) ==
  IF format_type = "audio"
  THEN IF Lower(file_format) = "wav"
       THEN Stem(filename) \o <<"wav">>
       ELSE Stem(filename) \o <<"mp3">>
  ELSE LET video_ext == Lower(file_format) IN
       IF ~EndsWith(filename, video_ext)
       THEN Stem(filename) \o <<video_ext>>
       ELSE filename

\* the file the engine leaves on disk, given the name prepare_filename
\* reports: the audio postprocessor replaces the extension by the codec's,
\* a video keeps the name
Produced(format_type, file_format, filename) ==
  IF format_type = "audio"
  THEN Stem(filename) \o <<Lower(file_format)>>
  ELSE filename

\* ---- inputs
HookEvents ==
  [fn : {"progress_hook"}, status : {"downloading", "finished"},
   downloaded : 0..MaxEventBytes, total : 0..MaxEventBytes]

OptsRequests ==
  [fn : {"ydl_opts"}, format_type : {"audio"}, file_format : {"mp3", "wav"},
   quality : {"128", "192", "256", "320", "best", "999", ""},
   streams : (SUBSET Streams) \ {{}}]
  \cup
  [fn : {"ydl_opts"}, format_type : {"video"}, file_format : {"mp4", "MP4", "mkv", "webm"},
   quality : {"720p", "best", "hd"},
   streams : (SUBSET Streams) \ {{}}]

PreparedNames ==
  { <<"id">>, <<"id", "webm">>, <<"id", "mp4">>, <<"id", "m4a">>, <<"id", "mkv">>,
    <<"id", "mp3">>, <<"id", "wav">>, <<"a", "b", "mp4">> }

FilenameInputs ==
  [fn : {"normalize"}, format_type : {"audio"},
   file_format : {"mp3", "wav", "WAV", "flac", "m4a"}, filename : PreparedNames]
  \cup
  [fn : {"normalize"}, format_type : {"video"},
   file_format : {"mp4", "mkv", "webm", "MP4"}, filename : PreparedNames]

FnInit ==
  /\ Idle
  /\ res = NoRes
  /\ \/ arg \in HookEvents
     \/ arg \in OptsRequests
     \/ arg \in FilenameInputs

fnFrame == <<download_status, files, rpc, req, fpc, fid, fpath, fpos, slept,
             pollResult, submitResult, hookLog, lockVars, arg>>

\* lines 148-177: the entry progress_hook writes for the event
progress_hook_entry ==
  /\ arg.fn = "progress_hook" /\ res = NoRes
  /\ res' = IF arg.status = "downloading"
            THEN DownloadingEntry(arg.downloaded, arg.total)
            ELSE ProcessingEntry
  /\ UNCHANGED fnFrame

\* lines 184-240: the options, and the streams the engine selects with them
build_ydl_opts ==
  /\ arg.fn = "ydl_opts" /\ res = NoRes
  /\ LET opts == ydl_opts(arg) IN
     res' = IF opts.raised
            THEN [opts |-> opts, selection |-> {}]
            ELSE [opts |-> opts, selection |-> Select(opts.format, arg.streams)]
  /\ UNCHANGED fnFrame

\* lines 241-253: the reported filename, next to the file on disk
normalize_filename ==
  /\ arg.fn = "normalize" /\ res = NoRes
  /\ res' = [filename |-> normalize(arg.format_type, arg.file_format, arg.filename),
             produced |-> Produced(arg.format_type, arg.file_format, arg.filename)]
  /\ UNCHANGED fnFrame

FnNext == progress_hook_entry \/ build_ydl_opts \/ normalize_filename

SpecFn == FnInit /\ [][FnNext]_vars

\* ================================================================ properties
InProgress(st) == st \in {"downloading", "processing"}
Terminal(st) == st \in {"completed", "error"}

\* the request passed lines 393-402 and got a streaming Response
Passed(f) == fpc[f] \in {"ready", "dropped", "stream", "sleep", "remove", "del", "cdone", "cfail"}
\* the request is between its lookup and the end of its cleanup thread
InFlight(f) == fpc[f] \in {"check", "respond", "ready", "stream", "sleep", "remove", "del"}
HandleOpen(f) == fpc[f] = "stream"
CleanupActing(f) == fpc[f] \in {"remove", "del", "cdone", "cfail"}
\* a cleanup thread of job id has executed lines 424-426
Removed(id) == \E f \in Fetchers : fid[f] = id /\ fpc[f] = "cdone"

\* C1 (as stated): from one write of a job's entry to the next the percent never
\* decreases while the state is downloading or processing, and a completed
\* entry has percent exactly 100.
C1_PercentStep ==
  \A j \in Jobs :
    /\ (j \in DOMAIN download_status' /\ download_status'[j].status = "completed")
         => download_status'[j].percent = CompletedPercent
    /\ ( /\ j \in DOMAIN download_status /\ j \in DOMAIN download_status'
         /\ InProgress(download_status[j].status)
         /\ InProgress(download_status'[j].status) )
         => download_status'[j].percent >= download_status[j].percent

C1_PercentNeverDecreases == [][C1_PercentStep]_vars

\* C2 (as stated): for one job, no two file requests both pass the
\* preconditions and get a stream.
C2_AtMostOneStream ==
  \A j \in Jobs : Cardinality({f \in Fetchers : Passed(f) /\ fid[f] = j}) <= 1

\* C2 (amended): a file request passes the preconditions only while the job's
\* entry is still stored as completed and its file is still on disk; until
\* cleanup removes them any number of requests may pass, afterwards none.
C2_PassStep ==
  \A f \in Fetchers :
    (fpc[f] = "check" /\ fpc'[f] = "respond")
      => /\ StatusOf(fid[f]) = "completed"
         /\ download_status[fid[f]].filepath = fpath[f]
         /\ fpath[f] \in files
         /\ ~Removed(fid[f])

C2_PassOnlyBeforeRemoval == [][C2_PassStep]_vars

\* two requests of the same job both hold a stream
C2_Witness ==
  \E f \in Fetchers, g \in Fetchers :
    f # g /\ fid[f] = fid[g] /\ Passed(f) /\ Passed(g)

\* C3 (as stated): whenever the Store holds a completed entry, the file at its
\* filepath exists on disk.
C3_CompletedFileExists ==
  \A j \in DOMAIN download_status :
    download_status[j].status = "completed" => download_status[j].filepath \in files

\* C4 (as stated): an entry is created in state queued, and its state never
\* moves back along queued -> downloading -> processing -> completed | error;
\* completed and error are final.
Rank(st) ==
  CASE st = "queued" -> 0
    [] st = "downloading" -> 1
    [] st = "processing" -> 2
    [] st = "completed" -> 3
    [] st = "error" -> 3

C4_LifecycleStep ==
  \A j \in Jobs :
    /\ (j \notin DOMAIN download_status /\ j \in DOMAIN download_status')
         => download_status'[j].status = "queued"
    /\ ( /\ j \in DOMAIN download_status /\ j \in DOMAIN download_status'
         /\ download_status'[j].status # download_status[j].status )
         => /\ Rank(download_status'[j].status) > Rank(download_status[j].status)
            /\ ~Terminal(download_status[j].status)

C4_LifecycleForward == [][C4_LifecycleStep]_vars

\* C5 (as stated, in the form a finite run refutes): once the runner thread of
\* a job has ended, the job's entry is completed or error (or was removed by
\* cleanup); no job is left in queued, downloading or processing.
C5_EndedRunnerIsTerminal ==
  \A j \in Jobs :
    rpc[j] \in {"done", "dead"} => StatusOf(j) \in {"completed", "error", "absent"}

\* C6: once a job's entry is completed or error, every step leaves the entry
\* as it is or is the removal of lines 424-426 by a cleanup thread of that job,
\* and the runner of that job never runs again.
C6_TerminalStep ==
  \A j \in Jobs :
    Terminal(StatusOf(j)) =>
      /\ rpc'[j] = rpc[j]
      /\ \/ j \in DOMAIN download_status' /\ download_status'[j] = download_status[j]
         \/ /\ j \notin DOMAIN download_status'
            /\ \E f \in Fetchers : fid[f] = j /\ fpc[f] = "del" /\ fpc'[f] = "cdone"

C6_TerminalWrittenOnce == [][C6_TerminalStep]_vars

\* a completed entry that a cleanup thread is about to remove
C6_Witness ==
  \E f \in Fetchers :
    fpc[f] = "del" /\ StatusOf(fid[f]) = "completed" /\ rpc[fid[f]] = "done"

\* C7: once a cleanup thread has removed a job's entry the id is absent and
\* stays absent; a status poll of it answers not_found and a file request of it
\* answers 404.
C7_AbsentStep ==
  \A j \in Jobs :
    Removed(j) =>
      /\ j \notin DOMAIN download_status
      /\ j \notin DOMAIN download_status'
      /\ download_status_endpoint(j) => pollResult'.body = [status |-> "not_found"]
      /\ \A f \in Fetchers :
           (fpc[f] = "idle" /\ fpc'[f] # "idle" /\ fid'[f] = j) => fpc'[f] = "r404"

C7_RemovedStaysAbsent == [][C7_AbsentStep]_vars

\* after the removal a poll answered not_found and a request got 404
C7_Witness ==
  \E j \in Jobs, f \in Fetchers :
    /\ Removed(j)
    /\ fid[f] = j /\ fpc[f] = "r404" /\ fpath[f] = NoPath
    /\ pollResult = [id |-> j, body |-> [status |-> "not_found"]]

\* C8 (as stated): a cleanup thread acts only after the grace delay, and no
\* file is deleted while a stream of it is still being read, also when several
\* requests of the same job overlap.
C8_NoDeleteStep ==
  /\ \A f \in Fetchers : CleanupActing(f) => slept[f] >= GraceDelay
  /\ \A f \in Fetchers :
       (HandleOpen(f) /\ fpath[f] \in files) => fpath[f] \in files'

C8_NoDeleteWhileStreaming == [][C8_NoDeleteStep]_vars

\* C8 (amended): the cleanup thread started by a request acts only after that
\* request's own stream has ended and its handle is closed, and no earlier
\* than the grace delay after that; the stream of another request of the same
\* job may still be open.
C8_OwnStreamThenDelay ==
  \A f \in Fetchers :
    CleanupActing(f) => (~HandleOpen(f) /\ Passed(f) /\ slept[f] >= GraceDelay)

\* one request's cleanup has deleted the file under another request's stream
C8_Witness ==
  \E f \in Fetchers, g \in Fetchers :
    /\ f # g /\ fid[f] = fid[g]
    /\ fpc[f] = "del" /\ slept[f] = GraceDelay
    /\ HandleOpen(g) /\ fpath[g] \notin files

\* C9 (as stated, in the form a finite run refutes): when the cleanup threads
\* of a job have run to their end, the job's Store entry is removed, also when
\* deleting the file failed.
C9_CleanupRemovesEntry ==
  \A f \in Fetchers :
    ( /\ fpc[f] \in {"cdone", "cfail"}
      /\ \A g \in Fetchers : fid[g] = fid[f] => ~InFlight(g) )
      => fid[f] \notin DOMAIN download_status

\* C10: a file request that finds the entry absent or not completed, or the
\* file missing, answers 404; the step that answers 404 changes nothing but the
\* request's own position, and no stream or cleanup follows it.
C10_NotReadyStep ==
  \A f \in Fetchers :
    /\ (fpc[f] = "idle" /\ fpc'[f] # "idle" /\ StatusOf(fid'[f]) # "completed")
         => fpc'[f] = "r404"
    /\ (fpc[f] = "check" /\ fpc'[f] # "check" /\ fpath[f] \notin files)
         => fpc'[f] = "r404"
    /\ (fpc[f] # "r404" /\ fpc'[f] = "r404")
         => /\ UNCHANGED <<download_status, files, rpc, req, fpos, slept>>
            /\ \A g \in Fetchers \ {f} : fpc'[g] = fpc[g]
    /\ fpc[f] = "r404" => (fpc'[f] = "r404" /\ fpos'[f] = 0 /\ slept'[f] = 0)

C10_NotReadyNoSideEffects == [][C10_NotReadyStep]_vars

\* a request answered 404 because the file of a completed entry was missing
C10_Witness ==
  \E f \in Fetchers :
    /\ fpc[f] = "r404" /\ fpath[f] # NoPath
    /\ StatusOf(fid[f]) = "completed" /\ fpath[f] \notin files

\* C11: for an id that is not a key of the Store (never submitted, or removed),
\* the status endpoint answers not_found and the file endpoint answers 404,
\* and neither request adds the id to the Store.
C11_AbsentIdStep ==
  \A id \in Jobs :
    id \notin DOMAIN download_status =>
      /\ (pollResult' # NoPoll /\ pollResult'.id = id)
           => /\ pollResult'.body = [status |-> "not_found"]
              /\ id \notin DOMAIN download_status'
      /\ \A f \in Fetchers :
           (fpc[f] = "idle" /\ fpc'[f] # "idle" /\ fid'[f] = id)
             => /\ fpc'[f] = "r404"
                /\ id \notin DOMAIN download_status'

C11_AbsentIdNotFound == [][C11_AbsentIdStep]_vars

\* an id that was never submitted has been fetched (404) and is polled (not_found)
C11_Witness ==
  \E id \in Jobs, f \in Fetchers :
    /\ rpc[id] = "unborn" /\ id \notin DOMAIN download_status
    /\ fid[f] = id /\ fpc[f] = "r404"
    /\ pollResult = [id |-> id, body |-> [status |-> "not_found"]]

\* C12: a submit whose url is missing or empty is answered 400 and changes
\* nothing: no id is taken, no Store entry is created, no runner is started.
C12_EmptyUrlStep ==
  /\ \A j \in Jobs, r \in EmptyUrlRequests :
       download(j, r) => submitResult'.code = 400
  /\ submitResult'.code = 400
       => UNCHANGED <<download_status, files, rpc, req, fetchVars>>

C12_EmptyUrlRejected == [][C12_EmptyUrlStep]_vars

\* an empty url was rejected while the Store is still empty and no id is used
C12_Witness ==
  /\ submitResult = [code |-> 400, download_id |-> 0]
  /\ DOMAIN download_status = {}
  /\ \A j \in Jobs : rpc[j] = "unborn"

\* C13: every write of a Store entry (queued, progress, completed, error) is a
\* step of that job's own submission or of its own live runner and reporter,
\* and leaves the entries and runners of all other jobs as they are; a file is
\* created only by the runner whose id is in its path.
RunnerWrites(j) ==
  \/ \E r \in Requests : download(j, r)
  \/ RunnerBuildConfig(j)
  \/ \E d \in 0..MaxBytes, t \in 0..MaxBytes : progress_hook_downloading(j, d, t)
  \/ progress_hook_finished(j)
  \/ EngineRaise(j)
  \/ EngineReturn(j)

EntryWritten(k) ==
  /\ k \in DOMAIN download_status'
  /\ k \in DOMAIN download_status => download_status'[k] # download_status[k]

C13_OwnEntryStep ==
  /\ \A k \in Jobs :
       EntryWritten(k) =>
         /\ RunnerWrites(k)
         /\ rpc[k] \in {"unborn", "config", "running"}
         /\ \A m \in Jobs \ {k} :
              /\ ~EntryWritten(m)
              /\ m \in DOMAIN download_status => m \in DOMAIN download_status'
              /\ rpc'[m] = rpc[m]
  /\ \A p \in files' \ files : EngineReturn(p.base[1])

C13_OwnEntryOnly == [][C13_OwnEntryStep]_vars

\* two jobs run at the same time and their entries differ
C13_Witness ==
  /\ rpc[1] = "running" /\ rpc[2] = "running"
  /\ StatusOf(1) = "processing" /\ StatusOf(2) = "downloading"

\* C14: a failure inside the progress reporter is swallowed: the step changes
\* no Store entry, moves no job to error, leaves every runner where it is, and
\* the reporter of that job can still be called with later events.
C14_SwallowedStep ==
  \A j \in Jobs :
    progress_hook_malformed(j) =>
      /\ download_status' = download_status
      /\ StatusOf(j) # "error"
      /\ rpc' = rpc /\ rpc'[j] = "running"
      /\ files' = files

C14_HookFailureSwallowed == [][C14_SwallowedStep]_vars

\* a malformed event hit a job in the middle of its transfer
C14_Witness ==
  \E j \in Jobs :
    /\ hookLog = [id |-> j, line |-> "Progress hook error"]
    /\ rpc[j] = "running"
    /\ StatusOf(j) = "downloading" /\ download_status[j].downloaded = 1

\* C16: every Store entry, and every snapshot a poll returns, has exactly the
\* fields of its state: filepath, filename and title iff completed, error iff
\* error, downloaded, total, speed and eta only while downloading.
ArtifactFields == {"filepath", "filename", "title"}
TransferFields == {"downloaded", "total", "speed", "eta"}

FieldsFit(e) ==
  /\ (e.status = "completed" => ArtifactFields \subseteq DOMAIN e)
  /\ (e.status # "completed" => ArtifactFields \cap DOMAIN e = {})
  /\ ("error" \in DOMAIN e <=> e.status = "error")
  /\ (TransferFields \cap DOMAIN e # {} => e.status = "downloading")
  /\ (e.status = "downloading" => TransferFields \subseteq DOMAIN e)

C16_FieldsOfState ==
  /\ \A j \in DOMAIN download_status : FieldsFit(download_status[j])
  /\ pollResult # NoPoll => FieldsFit(pollResult.body)

\* the Store holds a completed and an error entry while a poll returns one
C16_Witness ==
  /\ StatusOf(1) = "completed" /\ StatusOf(2) = "error"
  /\ pollResult # NoPoll /\ pollResult.body.status = "completed"

\* C15 (as stated): every access to a Store entry happens inside the lock, so
\* two accesses never overlap, and a thread that wants to access one job id
\* never waits for a thread that is accessing a different job id.
InLock(t) == tpc[t] \in {"held", "leave"}
Blocked(t) == tpc[t] = "wait" /\ lock # 0

C15_PerIdExclusion ==
  /\ \A t \in Threads, u \in Threads : (InLock(t) /\ InLock(u)) => t = u
  /\ \A t \in Threads : Blocked(t) => top[lock].id = top[t].id

\* C15 (amended): every access to a Store entry happens while the accessing
\* thread holds the one global download_lock, so no two accesses overlap,
\* whatever their job ids; a thread that wants an entry waits while any other
\* thread holds the lock, also for a different job id.
C15_GlobalExclusionStep ==
  /\ \A t \in Threads, u \in Threads : (InLock(t) /\ InLock(u)) => t = u
  /\ \A t \in Threads : InLock(t) => lock = t
  /\ download_status' # download_status
       => \E t \in Threads : lock = t /\ tpc[t] = "held" /\ tpc'[t] = "leave"
  /\ \A t \in Threads : Blocked(t) => tpc'[t] = "wait"

C15_GlobalExclusion == [][C15_GlobalExclusionStep]_vars

\* a thread waits for the lock while the holder works on another job id
C15_Witness ==
  \E t \in Threads :
    /\ Blocked(t) /\ InLock(lock)
    /\ top[lock].id # top[t].id

\* C17 (as stated): a downloading event with d bytes of t writes percent
\* exactly min(d/t*100, 99.9) when t is positive and 0 otherwise, within
\* [0, 99.9]; a finished event writes processing with percent 95.
HookDone == arg.fn = "progress_hook" /\ res # NoRes

C17_ExactPercent ==
  HookDone =>
    IF arg.status = "finished"
    THEN res = [status |-> "processing", percent |-> 9500]
    ELSE /\ res.status = "downloading"
         /\ res.percent >= 0 /\ res.percent <= 9990
         /\ IF arg.total > 0
            THEN IF arg.downloaded * 10000 >= 9990 * arg.total
                 THEN res.percent = 9990
                 ELSE res.percent * arg.total = arg.downloaded * 10000
            ELSE res.percent = 0

\* C17 (amended): the percent written is min(d/t*100, 99.9) rounded to two
\* decimal places (at most half a hundredth away from it) when t is positive
\* and 0 otherwise, always within [0, 99.9] even when d exceeds t; a finished
\* event writes processing with percent 95.
Dist(a, b) == IF a >= b THEN a - b ELSE b - a

C17_RoundedPercent ==
  HookDone =>
    IF arg.status = "finished"
    THEN res = [status |-> "processing", percent |-> 9500]
    ELSE /\ res.status = "downloading"
         /\ res.downloaded = arg.downloaded /\ res.total = arg.total
         /\ res.percent >= 0 /\ res.percent <= 9990
         /\ IF arg.total > 0
            THEN IF arg.downloaded * 10000 >= 9990 * arg.total
                 THEN res.percent = 9990
                 ELSE 2 * Dist(res.percent * arg.total, arg.downloaded * 10000) <= arg.total
            ELSE res.percent = 0

\* an event whose ratio has more than two decimals, and one beyond its total
C17_Witness ==
  /\ HookDone /\ arg.status = "downloading"
  /\ \/ arg.downloaded = 1 /\ arg.total = 3 /\ res.percent = 3333
     \/ arg.downloaded > arg.total /\ arg.total > 0 /\ res.percent = 9990

\* C18: for a video job with quality <N>p and any container the selector is
\* the five-step chain (container and height <= N) -> (height <= N) ->
\* (best with height <= N) -> (best in the container) -> (best); on any
\* non-empty set of streams it selects something, and it selects height <= N
\* whenever a stream of height <= N exists.
C18_FiveStepChain ==
  (arg.fn = "ydl_opts" /\ res # NoRes /\ arg.format_type = "video" /\ QualityParses(arg.quality)) =>
    LET chain == res.opts.format
        N == Height(arg.quality)
        container == Lower(arg.file_format) IN
    /\ Len(chain) = 5
    /\ chain[1][1].maxh = N /\ chain[1][1].ext = container
    /\ chain[2][1].maxh = N /\ chain[2][1].ext = ""
    /\ chain[3][1].pick = "best" /\ chain[3][1].maxh = N
    /\ chain[4] = <<Term("best", 0, container)>>
    /\ chain[5] = <<Term("best", 0, "")>>
    /\ res.selection # {}
    /\ (\E f \in arg.streams : f.height # 0 /\ f.height <= N)
         => \A f \in res.selection : f.height <= N

\* C19: the reported filename carries the extension of the requested format
\* (.wav for wav, .mp3 for any other audio format, the requested container
\* for video) and names the file the engine produced.
C19_NamesProducedFile ==
  (arg.fn = "normalize" /\ res # NoRes) =>
    /\ res.filename[Len(res.filename)] =
         IF arg.format_type = "audio"
         THEN IF Lower(arg.file_format) = "wav" THEN "wav" ELSE "mp3"
         ELSE Lower(arg.file_format)
    /\ Len(res.filename) >= 2
    /\ res.filename = res.produced

\* C20: for an audio job the bitrate handed to the engine is the requested
\* tier when it is 128, 192, 256 or 320 and 192 for every other value ("best",
\* "999", ""), and building the options never fails.
C20_BitrateDefault ==
  (arg.fn = "ydl_opts" /\ res # NoRes /\ arg.format_type = "audio") =>
    /\ ~res.opts.raised
    /\ res.opts.preferredquality =
         IF arg.quality \in {"128", "192", "256", "320"} THEN arg.quality ELSE "192"

C20_Witness ==
  /\ arg.fn = "ydl_opts" /\ res # NoRes /\ arg.format_type = "audio"
  /\ arg.quality = "999"
  /\ res.opts.preferredquality = "192"

====
